---- MODULE Spec2Model ----
(***************************************************************************)
(* A model of the lazy sequence primitives of uuuu/iterables.py.          *)
(*                                                                         *)
(* Every primitive is modelled by one record variable holding the state   *)
(* of one call (its arguments, the iterators it built, what its outputs   *)
(* have yielded so far) and by one action per pull on one of its outputs. *)
(* A pull is atomic: the interpreter runs the code between two yields      *)
(* without interleaving another pull of the same thread.                   *)
(* Each primitive has a specification of its own (SpecPeek, SpecSplit ...) *)
(* in which the other primitives' variables stay Idle.                     *)
(***************************************************************************)
EXTENDS Integers, Sequences, FiniteSets, TLC

VARIABLES pk, sp, bt, rr, ij, ra, fs, mm, pz, dr, th, tl, ex

vars == <<pk, sp, bt, rr, ij, ra, fs, mm, pz, dr, th, tl, ex>>

(***************************************************************************)
(* Bounds of the model.                                                    *)
(***************************************************************************)
\* items are drawn from 1..MaxItem
MaxItem == 2
\* input sequences have at most MaxLen items
MaxLen == 3
\* peek's num_items ranges over -1..MaxPeek
MaxPeek == 4
\* batches' batch_size ranges over 1..MaxBatch
MaxBatch == 3
\* batches' input has at most MaxBatchLen items
MaxBatchLen == 5
\* roundrobin gets at most MaxInputs iterables of at most MaxRRLen items
MaxInputs == 3
MaxRRLen == 4
\* inner_join's keys are 1..MaxKey, its streams have at most MaxJoinLen items
MaxKey == 2
MaxJoinLen == 3
\* multimap gets at most MaxFns functions
MaxFns == 2
\* parallelize's pool has 1..MaxWorkers worker processes
MaxWorkers == 2

\* drop_random's rate and random.random() are counted in units of
\* 1 / RateSteps
RateSteps == 2

\* throttle's max_rate is an integer up to MaxRate
MaxRate == 2

\* time_limited_stream's max_duration and delay_per_item, in clock ticks
MaxDuration == 2
MaxDelay == 2

Items == 1..MaxItem

SeqsUpTo(V, n) == UNION {[1..k -> V] : k \in 0..n}

Inputs == SeqsUpTo(Items, MaxLen)

\* The two ways a caller can hand a sequence over: a replayable iterable
\* (list, range) or a single-pass iterator (iter(...), a generator).
Kinds == {"iterable", "iterator"}

Idle == [call |-> "none"]

Min(a, b) == IF a <= b THEN a ELSE b

Max(a, b) == IF a >= b THEN a ELSE b

Take(s, n) == SubSeq(s, 1, Min(n, Len(s)))

IsPrefix(p, s) == Len(p) <= Len(s) /\ p = SubSeq(s, 1, Len(p))

\* A user callback of call c raises on the arguments in c.raising.  A
\* call record notes in failed that a pull has raised and in cut how many
\* items the output had yielded by then.
Raises(c, x) == x \in c.raising

Fail(c, yielded) ==
    [c EXCEPT !.failed = TRUE, !.cut = IF c.failed THEN @ ELSE yielded]

(***************************************************************************)
(* Iterators.  An iterator over a sequence is a cursor; next() returns the *)
(* item under the cursor and advances, or signals StopIteration (ok =      *)
(* FALSE) and stays exhausted.                                             *)
(***************************************************************************)
Iter(S) == [items |-> S, pos |-> 0]

IterNext(it) ==
    IF it.pos < Len(it.items)
    THEN [ok |-> TRUE, item |-> it.items[it.pos + 1],
          it |-> [it EXCEPT !.pos = @ + 1]]
    ELSE [ok |-> FALSE, item |-> 0, it |-> it]

(***************************************************************************)
(* itertools.tee(items, 2): two readers over one underlying iterator.  A   *)
(* reader that is behind is served from the buffer; the reader in front    *)
(* pulls the next item from the underlying iterator and buffers it.        *)
(***************************************************************************)
Tee(S) == [src |-> Iter(S), buf |-> <<>>, rd |-> <<0, 0>>]

\* No buffer: every reader pulls from the underlying iterator.
TeeNextUnbuffered(t, c) ==
    LET r == IterNext(t.src) IN
    IF r.ok
    THEN [ok |-> TRUE, item |-> r.item,
          tee |-> [t EXCEPT !.src = r.it, !.rd[c] = @ + 1]]
    ELSE [ok |-> FALSE, item |-> 0, tee |-> [t EXCEPT !.src = r.it]]

TeeNext(t, c) ==
    IF t.rd[c] < Len(t.buf)
    THEN [ok |-> TRUE, item |-> t.buf[t.rd[c] + 1],
          tee |-> [t EXCEPT !.rd[c] = @ + 1]]
    ELSE LET r == IterNext(t.src) IN
         IF r.ok
         THEN [ok |-> TRUE, item |-> r.item,
               tee |-> [t EXCEPT !.src = r.it,
                                 !.buf = Append(@, r.item),
                                 !.rd[c] = @ + 1]]
         ELSE [ok |-> FALSE, item |-> 0, tee |-> [t EXCEPT !.src = r.it]]

(***************************************************************************)
(* peek(items, num_items)                                                  *)
(***************************************************************************)
\* items chained after seq2 whatever it is.
ChainsSourceAlways(kind) == TRUE

\* isinstance(items, Iterator): only then is items chained after seq2.
ChainsSource(kind) == kind = "iterator"

\* The state right after peek(items, num_items) returned or raised (a
\* negative num_items: ValueError, nothing is built): seq1, seq2 are
\* readers 1 and 2 of the tee, peeked = islice(seq1, num_items) has taken
\* cnt items, the continuation reads seq2 (part 1) and then, when chained,
\* items (part 2).  iter(items) of a replayable input is a fresh cursor
\* (again); of an iterator it is that iterator, the tee's own source.
PeekCall(S, kind, n) ==
    [call |-> "peek", items |-> S, kind |-> kind, num_items |-> n,
     raised |-> n < 0, tee |-> Tee(S), cnt |-> 0,
     chained |-> ChainsSource(kind), part |-> 1, again |-> Iter(S),
     peeked |-> <<>>, peekedDone |-> FALSE,
     cont |-> <<>>, contDone |-> FALSE]

PeekInit ==
    /\ pk \in {PeekCall(S, kind, n) : S \in Inputs, kind \in Kinds, n \in -1..MaxPeek}
    /\ sp = Idle /\ bt = Idle /\ rr = Idle /\ ij = Idle
    /\ ra = Idle /\ fs = Idle /\ mm = Idle /\ pz = Idle
    /\ dr = Idle /\ th = Idle /\ tl = Idle /\ ex = Idle

\* next(peeked): islice stops after num_items items without touching seq1.
PeekPullPeeked ==
    /\ pk.call = "peek" /\ ~pk.raised /\ ~pk.peekedDone
    /\ IF pk.cnt >= pk.num_items
       THEN pk' = [pk EXCEPT !.peekedDone = TRUE]
       ELSE LET r == TeeNext(pk.tee, 1) IN
            IF r.ok
            THEN pk' = [pk EXCEPT !.tee = r.tee, !.cnt = @ + 1,
                                  !.peeked = Append(@, r.item)]
            ELSE pk' = [pk EXCEPT !.tee = r.tee, !.peekedDone = TRUE]
    /\ UNCHANGED <<sp, bt, rr, ij, ra, fs, mm, pz, dr, th, tl, ex>>

\* next() of the second iterable of the chain: items itself.
PeekItemsNext(p) ==
    IF p.kind = "iterator"
    THEN LET r == IterNext(p.tee.src) IN
         [ok |-> r.ok, item |-> r.item, st |-> [p EXCEPT !.tee.src = r.it]]
    ELSE LET r == IterNext(p.again) IN
         [ok |-> r.ok, item |-> r.item, st |-> [p EXCEPT !.again = r.it]]

\* next(continuation): seq2 alone, or chain(seq2, items).
PeekContNext(p) ==
    IF p.part = 1
    THEN LET r == TeeNext(p.tee, 2) IN
         IF r.ok
         THEN [ok |-> TRUE, item |-> r.item, st |-> [p EXCEPT !.tee = r.tee]]
         ELSE IF p.chained
              THEN PeekItemsNext([p EXCEPT !.tee = r.tee, !.part = 2])
              ELSE [ok |-> FALSE, item |-> 0, st |-> [p EXCEPT !.tee = r.tee]]
    ELSE PeekItemsNext(p)

PeekPullCont ==
    /\ pk.call = "peek" /\ ~pk.raised /\ ~pk.contDone
    /\ LET r == PeekContNext(pk) IN
       IF r.ok
       THEN pk' = [r.st EXCEPT !.cont = Append(@, r.item)]
       ELSE pk' = [r.st EXCEPT !.contDone = TRUE]
    /\ UNCHANGED <<sp, bt, rr, ij, ra, fs, mm, pz, dr, th, tl, ex>>

PeekNext == PeekPullPeeked \/ PeekPullCont

SpecPeek == PeekInit /\ [][PeekNext]_vars

\* C1: peeked yields the first min(n, |S|) items of S in order and the
\* continuation, fully traversed, yields every item of S exactly once in
\* order, whatever the interleaving of the pulls on the two.
C1_PeekPrefixAndContinuation ==
    (pk.call = "peek" /\ pk.num_items >= 0) =>
        /\ ~pk.raised
        /\ IsPrefix(pk.peeked, Take(pk.items, pk.num_items))
        /\ pk.peekedDone => pk.peeked = Take(pk.items, pk.num_items)
        /\ IsPrefix(pk.cont, pk.items)
        /\ pk.contDone => pk.cont = pk.items

\* A single-pass input of three items whose continuation has been fully
\* traversed while peeked, pulled once in between, is still half-way.
C1_Witness ==
    /\ pk.call = "peek" /\ pk.kind = "iterator"
    /\ pk.contDone /\ Len(pk.cont) = 3
    /\ pk.num_items = 2 /\ Len(pk.peeked) = 1 /\ ~pk.peekedDone

(***************************************************************************)
(* split(predicate, items)                                                 *)
(***************************************************************************)
\* A predicate is the set of the items it holds of.
Predicates == SUBSET Items

\* filter keeps the items the predicate holds of, filterfalse the others.
SplitTrueWant == TRUE

\* filter in the place of filterfalse.
SplitFalseWantSame == TRUE

SplitFalseWant == FALSE

\* The state right after split(predicate, items) returned: true_iter and
\* false_iter are readers 1 and 2 of the tee; evals[c] lists the items
\* the filter over reader c has called the predicate on.  err is set
\* while an exception of the predicate travels up to the consumer; failed
\* and cut are kept per output.
SplitCall(S, kind, P) ==
    [call |-> "split", items |-> S, kind |-> kind, predicate |-> P,
     tee |-> Tee(S), evals |-> <<(<<>>), (<<>>)>>,
     raising |-> {}, err |-> FALSE,
     failed |-> <<FALSE, FALSE>>, cut |-> <<0, 0>>,
     matched |-> <<>>, matchedDone |-> FALSE,
     unmatched |-> <<>>, unmatchedDone |-> FALSE]

SplitInit ==
    /\ sp \in {SplitCall(S, kind, P) : S \in Inputs, kind \in Kinds, P \in Predicates}
    /\ pk = Idle /\ bt = Idle /\ rr = Idle /\ ij = Idle
    /\ ra = Idle /\ fs = Idle /\ mm = Idle /\ pz = Idle
    /\ dr = Idle /\ th = Idle /\ tl = Idle /\ ex = Idle

\* next() of filter / filterfalse over reader c: read on, calling the
\* predicate on every item read, until one has the wanted verdict.
RECURSIVE FilterNext(_, _, _)
FilterNext(s, c, want) ==
    LET r == TeeNext(s.tee, c) IN
    IF ~r.ok
    THEN [ok |-> FALSE, item |-> 0, st |-> [s EXCEPT !.tee = r.tee]]
    ELSE LET s1 == [s EXCEPT !.tee = r.tee,
                             !.evals[c] = Append(@, r.item)] IN
         IF Raises(s, r.item)
         THEN [ok |-> FALSE, item |-> 0, st |-> [s1 EXCEPT !.err = TRUE]]
         ELSE IF (r.item \in s.predicate) = want
              THEN [ok |-> TRUE, item |-> r.item, st |-> s1]
              ELSE FilterNext(s1, c, want)

\* The exception of the predicate comes out of next() on output c; the
\* filter object itself stays as it is.
SplitFail(s, c, yielded) ==
    [s EXCEPT !.err = FALSE, !.failed[c] = TRUE,
              !.cut[c] = IF s.failed[c] THEN @ ELSE yielded]

SplitPullMatched ==
    /\ sp.call = "split" /\ ~sp.matchedDone
    /\ LET r == FilterNext(sp, 1, SplitTrueWant) IN
       IF r.ok
       THEN sp' = [r.st EXCEPT !.matched = Append(@, r.item)]
       ELSE IF r.st.err
            THEN sp' = SplitFail(r.st, 1, Len(sp.matched))
            ELSE sp' = [r.st EXCEPT !.matchedDone = TRUE]
    /\ UNCHANGED <<pk, bt, rr, ij, ra, fs, mm, pz, dr, th, tl, ex>>

SplitPullUnmatched ==
    /\ sp.call = "split" /\ ~sp.unmatchedDone
    /\ LET r == FilterNext(sp, 2, SplitFalseWant) IN
       IF r.ok
       THEN sp' = [r.st EXCEPT !.unmatched = Append(@, r.item)]
       ELSE IF r.st.err
            THEN sp' = SplitFail(r.st, 2, Len(sp.unmatched))
            ELSE sp' = [r.st EXCEPT !.unmatchedDone = TRUE]
    /\ UNCHANGED <<pk, bt, rr, ij, ra, fs, mm, pz, dr, th, tl, ex>>

SplitNext == SplitPullMatched \/ SplitPullUnmatched

SpecSplit == SplitInit /\ [][SplitNext]_vars

Holding(S, P) == SelectSeq(S, LAMBDA x : x \in P)

Failing(S, P) == SelectSeq(S, LAMBDA x : x \notin P)

\* C2: under any interleaving of the pulls, matched yields exactly the
\* items of S the predicate holds of and unmatched exactly the others,
\* each in the original relative order, none lost and none duplicated.
C2_SplitPartitions ==
    sp.call = "split" =>
        /\ IsPrefix(sp.matched, Holding(sp.items, sp.predicate))
        /\ sp.matchedDone => sp.matched = Holding(sp.items, sp.predicate)
        /\ IsPrefix(sp.unmatched, Failing(sp.items, sp.predicate))
        /\ sp.unmatchedDone => sp.unmatched = Failing(sp.items, sp.predicate)
        /\ sp.matchedDone /\ sp.unmatchedDone =>
               Len(sp.matched) + Len(sp.unmatched) = Len(sp.items)

\* Both outputs drained of a three-item input whose first item fails the
\* predicate and whose two others pass it.
C2_Witness ==
    /\ sp.call = "split" /\ sp.matchedDone /\ sp.unmatchedDone
    /\ Len(sp.items) = 3 /\ Len(sp.matched) = 2 /\ Len(sp.unmatched) = 1
    /\ sp.items[1] \notin sp.predicate

\* C3 as stated: once both outputs are drained the predicate has been
\* called |S| times in total.
C3_SingleEvaluation ==
    (sp.call = "split" /\ sp.matchedDone /\ sp.unmatchedDone) =>
        Len(sp.evals[1]) + Len(sp.evals[2]) = Len(sp.items)

\* C3 amended: each output's filter calls the predicate exactly once on
\* every item it has read, in input order; once both outputs are drained
\* each has called it on all of S, 2 * |S| calls in total.
C3_EvaluationPerOutput ==
    sp.call = "split" =>
        /\ \A c \in 1..2 : sp.evals[c] = SubSeq(sp.items, 1, sp.tee.rd[c])
        /\ sp.matchedDone => sp.evals[1] = sp.items
        /\ sp.unmatchedDone => sp.evals[2] = sp.items
        /\ sp.matchedDone /\ sp.unmatchedDone =>
               Len(sp.evals[1]) + Len(sp.evals[2]) = 2 * Len(sp.items)

\* Both outputs drained over a three-item input: six predicate calls.
C3_Witness ==
    /\ sp.call = "split" /\ sp.matchedDone /\ sp.unmatchedDone
    /\ Len(sp.items) = 3
    /\ Len(sp.evals[1]) = 3 /\ Len(sp.evals[2]) = 3

(***************************************************************************)
(* batches(items, batch_size)                                              *)
(***************************************************************************)
\* len(batch) > batch_size
BatchFullStrict(batch, batch_size) == Len(batch) > batch_size

\* len(batch) >= batch_size
BatchFull(batch, batch_size) == Len(batch) >= batch_size

\* No validation of batch_size.
BatchSizeUnchecked(batch_size) == FALSE

\* if batch_size < 2: raise ValueError
BatchSizeInvalid(batch_size) == batch_size < 2

\* The batch is kept after the yield.
BatchKept(batch) == batch

\* batch = [] after the yield inside the loop.
BatchReset(batch) == <<>>

\* batches is a generator function: the call runs none of its body.  pc is
\* where the generator is suspended: "start" (not started), "loop" (at the
\* yield inside the for loop), "tail" (at the yield after it), "done"
\* (returned), "raised" (ValueError).  pulls counts the next() made on the
\* input, the one that finds the end included; peak is the greatest length
\* batch has had.
BatchesCall(S, n) ==
    [call |-> "batches", items |-> S, batch_size |-> n, it |-> Iter(S),
     batch |-> <<>>, pulls |-> 0, peak |-> 0, pc |-> "start", out |-> <<>>]

BatchesInit ==
    /\ bt \in {BatchesCall(S, n) : S \in SeqsUpTo(Items, MaxBatchLen), n \in 1..MaxBatch}
    /\ pk = Idle /\ sp = Idle /\ rr = Idle /\ ij = Idle
    /\ ra = Idle /\ fs = Idle /\ mm = Idle /\ pz = Idle
    /\ dr = Idle /\ th = Idle /\ tl = Idle /\ ex = Idle

\* The for loop up to its next yield, and what follows the loop.
RECURSIVE BatchesLoop(_)
BatchesLoop(b) ==
    LET r == IterNext(b.it)
        b0 == [b EXCEPT !.it = r.it, !.pulls = @ + 1] IN
    IF r.ok
    THEN LET b1 == [b0 EXCEPT !.batch = Append(@, r.item),
                              !.peak = Max(@, Len(b.batch) + 1)] IN
         IF BatchFull(b1.batch, b1.batch_size)
         THEN [b1 EXCEPT !.pc = "loop", !.out = Append(@, b1.batch)]
         ELSE BatchesLoop(b1)
    ELSE IF b.batch # <<>>
         THEN [b0 EXCEPT !.pc = "tail", !.out = Append(@, b.batch)]
         ELSE [b0 EXCEPT !.pc = "done"]

\* next() on the generator.
BatchesPull ==
    /\ bt.call = "batches" /\ bt.pc \in {"start", "loop", "tail"}
    /\ bt' = CASE bt.pc = "start" ->
                    IF BatchSizeInvalid(bt.batch_size)
                    THEN [bt EXCEPT !.pc = "raised"]
                    ELSE BatchesLoop(bt)
               [] bt.pc = "loop" ->
                    BatchesLoop([bt EXCEPT !.batch = BatchReset(@)])
               [] bt.pc = "tail" -> [bt EXCEPT !.pc = "done"]
    /\ UNCHANGED <<pk, sp, rr, ij, ra, fs, mm, pz, dr, th, tl, ex>>

BatchesNext == BatchesPull

SpecBatches == BatchesInit /\ [][BatchesNext]_vars

RECURSIVE Flatten(_)
Flatten(groups) ==
    IF groups = <<>> THEN <<>> ELSE Head(groups) \o Flatten(Tail(groups))

\* C4: for size >= 2 the groups are consecutive and non-overlapping, their
\* concatenation is S, every group but the last has exactly size items,
\* the last has 1..size, none is empty or padded, and an empty S yields no
\* group.
C4_BatchesReconstruct ==
    (bt.call = "batches" /\ bt.batch_size >= 2) =>
        /\ IsPrefix(Flatten(bt.out), bt.items)
        /\ \A i \in 1..Len(bt.out) :
              /\ Len(bt.out[i]) >= 1 /\ Len(bt.out[i]) <= bt.batch_size
              /\ i < Len(bt.out) => Len(bt.out[i]) = bt.batch_size
        /\ bt.pc = "loop" => Len(bt.out[Len(bt.out)]) = bt.batch_size
        /\ bt.pc = "done" =>
              /\ Flatten(bt.out) = bt.items
              /\ bt.items = <<>> => bt.out = <<>>
        /\ bt.pc # "raised"

\* Five items in batches of two, drained: two full groups and one of one.
C4_Witness ==
    /\ bt.call = "batches" /\ bt.pc = "done" /\ bt.batch_size = 2
    /\ Len(bt.items) = 5 /\ Len(bt.out) = 3 /\ Len(bt.out[3]) = 1

(***************************************************************************)
(* roundrobin(iterables...)                                               *)
(***************************************************************************)
\* The r-th item of the i-th iterable is tagged <<i, r>>: roundrobin never
\* looks at an item, so the inputs are told by their lengths.  The
\* iterables are distinct objects: none is passed twice.
RRInput(i, n) == [r \in 1..n |-> <<i, r>>]

\* list.remove(x): drop the first occurrence of x.
RECURSIVE Remove(_, _)
Remove(l, x) ==
    IF l = <<>> THEN <<>>
    ELSE IF Head(l) = x THEN Tail(l) ELSE <<Head(l)>> \o Remove(Tail(l), x)

\* for it in iterators: the loop walks the list it removes from.
WalkedAliased(copy, iterators) == iterators

\* for it in list(iterators): the loop walks a copy, which a remove on
\* iterators leaves alone.
Walked(copy, iterators) == copy

\* roundrobin is a generator function.  iterators is the list of the live
\* iterators (by index into its), walk the list the for loop is walking
\* and idx how many of its entries it has visited; polls counts the
\* next() calls made on each input.
RoundrobinCall(lens) ==
    [call |-> "roundrobin", lens |-> lens,
     its |-> [i \in 1..Len(lens) |-> Iter(RRInput(i, lens[i]))],
     iterators |-> [i \in 1..Len(lens) |-> i], walk |-> <<>>, idx |-> 0,
     polls |-> [i \in 1..Len(lens) |-> 0],
     pc |-> "start", out |-> <<>>]

RoundrobinInit ==
    /\ rr \in {RoundrobinCall(lens) : lens \in SeqsUpTo(0..MaxRRLen, MaxInputs)}
    /\ pk = Idle /\ sp = Idle /\ bt = Idle /\ ij = Idle
    /\ ra = Idle /\ fs = Idle /\ mm = Idle /\ pz = Idle
    /\ dr = Idle /\ th = Idle /\ tl = Idle /\ ex = Idle

\* The body from where the generator stands up to its next yield or return.
RECURSIVE RoundrobinRun(_)
RoundrobinRun(s) ==
    IF s.idx >= Len(s.walk)
    THEN IF s.iterators = <<>>
         THEN [s EXCEPT !.pc = "done"]
         ELSE RoundrobinRun([s EXCEPT !.walk = s.iterators, !.idx = 0])
    ELSE LET i == s.walk[s.idx + 1]
             r == IterNext(s.its[i])
             s1 == [s EXCEPT !.its[i] = r.it, !.polls[i] = @ + 1, !.idx = @ + 1]
         IN  IF r.ok
             THEN [s1 EXCEPT !.pc = "yield", !.out = Append(@, r.item)]
             ELSE LET left == Remove(s1.iterators, i) IN
                  RoundrobinRun([s1 EXCEPT !.iterators = left,
                                           !.walk = Walked(s1.walk, left)])

RoundrobinPull ==
    /\ rr.call = "roundrobin" /\ rr.pc \in {"start", "yield"}
    /\ rr' = RoundrobinRun(rr)
    /\ UNCHANGED <<pk, sp, bt, ij, ra, fs, mm, pz, dr, th, tl, ex>>

RoundrobinNext == RoundrobinPull

SpecRoundrobin == RoundrobinInit /\ [][RoundrobinNext]_vars

\* The items of round r: the r-th item of every input that has one, in
\* listed order.
RECURSIVE RoundOf(_, _, _)
RoundOf(lens, r, i) ==
    IF i > Len(lens) THEN <<>>
    ELSE (IF lens[i] >= r THEN <<(<<i, r>>)>> ELSE <<>>) \o RoundOf(lens, r, i + 1)

RECURSIVE RoundsFrom(_, _)
RoundsFrom(lens, r) ==
    IF \A i \in 1..Len(lens) : lens[i] < r THEN <<>>
    ELSE RoundOf(lens, r, 1) \o RoundsFrom(lens, r + 1)

\* C5: the output is ordered by round then input index, an exhausted
\* input is dropped for good and never polled again, and the drained
\* output holds every item of every input exactly once.
C5_RoundrobinOrder ==
    rr.call = "roundrobin" =>
        /\ IsPrefix(rr.out, RoundsFrom(rr.lens, 1))
        /\ rr.pc = "done" => rr.out = RoundsFrom(rr.lens, 1)
        /\ \A i \in 1..Len(rr.lens) :
              /\ rr.polls[i] <= rr.lens[i] + 1
              /\ rr.polls[i] = rr.lens[i] + 1 =>
                    \A j \in 1..Len(rr.iterators) : rr.iterators[j] # i
              /\ rr.pc = "done" => rr.polls[i] = rr.lens[i] + 1

\* roundrobin([1,2],[3,4,5,6],[7]) drained: [1,3,7,2,4,5,6].
C5_Witness ==
    /\ rr.call = "roundrobin" /\ rr.pc = "done" /\ rr.lens = <<2, 4, 1>>
    /\ rr.out = << <<1, 1>>, <<2, 1>>, <<3, 1>>, <<1, 2>>, <<2, 2>>, <<2, 3>>, <<2, 4>> >>

(***************************************************************************)
(* inner_join(stream1, stream2, key1, key2)                                *)
(***************************************************************************)
\* An item of a stream is told by its place (at) and carries the key (k)
\* its key function gives it: a stream and its key function together are
\* a sequence of keys.
Keyed(keys) == [i \in 1..Len(keys) |-> [k |-> keys[i], at |-> i]]

key1(item) == item.k

key2(item) == item.k

\* lookup.setdefault(k, item): the first item with a key stays.
DictSetDefault(d, k, v) ==
    IF k \in DOMAIN d THEN d
    ELSE [x \in DOMAIN d \cup {k} |-> IF x = k THEN v ELSE d[x]]

\* lookup[k] = item of the dict comprehension: a later item replaces an
\* earlier one with the same key.
DictSet(d, k, v) == [x \in DOMAIN d \cup {k} |-> IF x = k THEN v ELSE d[x]]

\* inner_join is a generator function: pc is "start", "yield" (at the
\* yield of the for loop), "done" or "raised" (an exception of a key
\* function came out); key1 raises on the items of stream1 at the places
\* raising1, key2 on those of stream2 at raising2.  pulls lists, in order,
\* the stream of every next() made on an input, the ones that find the
\* end included.
InnerJoinCall(keys1, keys2) ==
    [call |-> "inner_join", stream1 |-> Keyed(keys1), stream2 |-> Keyed(keys2),
     it1 |-> Iter(Keyed(keys1)), it2 |-> Iter(Keyed(keys2)),
     lookup |-> <<>>, pulls |-> <<>>, pc |-> "start", out |-> <<>>,
     raising1 |-> {}, raising2 |-> {}, failed |-> FALSE, cut |-> 0]

InnerJoinInit ==
    /\ ij \in {InnerJoinCall(keys1, keys2) :
                  keys1 \in SeqsUpTo(1..MaxKey, MaxJoinLen),
                  keys2 \in SeqsUpTo(1..MaxKey, MaxJoinLen)}
    /\ pk = Idle /\ sp = Idle /\ bt = Idle /\ rr = Idle
    /\ ra = Idle /\ fs = Idle /\ mm = Idle /\ pz = Idle
    /\ dr = Idle /\ th = Idle /\ tl = Idle /\ ex = Idle

\* An index that takes one item of stream2 and leaves the others for
\* later.
InnerJoinIndexLazy(j) ==
    LET r == IterNext(j.it2)
        j1 == [j EXCEPT !.it2 = r.it, !.pulls = Append(@, "stream2")] IN
    IF r.ok
    THEN [j1 EXCEPT !.lookup = DictSet(@, key2(r.item), r.item)]
    ELSE j1

\* {key2(item): item for item in stream2}
RECURSIVE InnerJoinIndex(_)
InnerJoinIndex(j) ==
    LET r == IterNext(j.it2)
        j1 == [j EXCEPT !.it2 = r.it, !.pulls = Append(@, "stream2")] IN
    IF r.ok
    THEN IF r.item.at \in j.raising2
         THEN Fail([j1 EXCEPT !.pc = "raised"], Len(j.out))
         ELSE InnerJoinIndex([j1 EXCEPT
                                 !.lookup = DictSet(@, key2(r.item), r.item)])
    ELSE j1

\* The for loop over stream1 up to its next yield or its end.
RECURSIVE InnerJoinLoop(_)
InnerJoinLoop(j) ==
    LET r == IterNext(j.it1)
        j1 == [j EXCEPT !.it1 = r.it, !.pulls = Append(@, "stream1")] IN
    IF r.ok
    THEN IF r.item.at \in j.raising1
         THEN Fail([j1 EXCEPT !.pc = "raised"], Len(j.out))
         ELSE LET k == key1(r.item) IN
              IF k \in DOMAIN j.lookup
              THEN [j1 EXCEPT !.pc = "yield",
                              !.out = Append(@, <<r.item, j.lookup[k]>>)]
              ELSE InnerJoinLoop(j1)
    ELSE [j1 EXCEPT !.pc = "done"]

\* next() on the generator: the first one builds the index and goes on
\* to the loop unless key2 raised; one that an exception has ended
\* ("raised") only says StopIteration.
InnerJoinPull ==
    /\ ij.call = "inner_join" /\ ij.pc \in {"start", "yield", "raised"}
    /\ ij' = CASE ij.pc = "start" ->
                    LET j == InnerJoinIndex(ij) IN
                    IF j.pc = "raised" THEN j ELSE InnerJoinLoop(j)
               [] ij.pc = "yield" -> InnerJoinLoop(ij)
               [] ij.pc = "raised" -> [ij EXCEPT !.pc = "done"]
    /\ UNCHANGED <<pk, sp, bt, rr, ra, fs, mm, pz, dr, th, tl, ex>>

InnerJoinNext == InnerJoinPull

SpecInnerJoin == InnerJoinInit /\ [][InnerJoinNext]_vars

\* The last item of right with key k.
LastWithKey(right, k) ==
    right[CHOOSE i \in 1..Len(right) :
              /\ right[i].k = k
              /\ \A m \in (i + 1)..Len(right) : right[m].k # k]

\* One pair per left item whose key some right item has, in left order.
RECURSIVE JoinOf(_, _)
JoinOf(left, right) ==
    IF left = <<>> THEN <<>>
    ELSE (IF \E i \in 1..Len(right) : right[i].k = Head(left).k
          THEN <<(<<Head(left), LastWithKey(right, Head(left).k)>>)>>
          ELSE <<>>) \o JoinOf(Tail(left), right)

\* C6: inner_join yields, in left order, exactly one pair (l, r) for each
\* left item l whose key some right item has, r being the last right item
\* with that key, and nothing for the other left items; left items with
\* the same key each yield their own pair.
C6_InnerJoinPairs ==
    ij.call = "inner_join" =>
        /\ IsPrefix(ij.out, JoinOf(ij.stream1, ij.stream2))
        /\ ij.pc = "done" => ij.out = JoinOf(ij.stream1, ij.stream2)

\* Left keys 1, 2, 1 against right keys 1, 1: two pairs, for the first
\* and the third left item, both with the second right item.
C6_Witness ==
    /\ ij.call = "inner_join" /\ ij.pc = "done"
    /\ Len(ij.stream2) = 2 /\ ij.stream2[1].k = 1 /\ ij.stream2[2].k = 1
    /\ Len(ij.stream1) = 3 /\ ij.stream1[1].k = 1 /\ ij.stream1[2].k = 2
    /\ ij.stream1[3].k = 1
    /\ ij.out = << <<ij.stream1[1], ij.stream2[2]>>, <<ij.stream1[3], ij.stream2[2]>> >>

(***************************************************************************)
(* Values that may be None.  rolling_aggregate and filter_with_state test  *)
(* a value against None; their items, accumulators and results range over  *)
(* None and one other value.                                               *)
(***************************************************************************)
None == "None"

Vals == {None, "x"}

ValInputs == SeqsUpTo(Vals, MaxLen)

(***************************************************************************)
(* rolling_aggregate(items, func, initial=None)                            *)
(***************************************************************************)
\* func is any function of (accumulator, item).
Funcs == [Vals \X Vals -> Vals]

\* rolling_aggregate is a generator function: pc is "start", "yield" or
\* "done".  supplied tells a call that passes initial from one that leaves
\* it to its default, None.
RollingCall(S, func, supplied, v) ==
    [call |-> "rolling_aggregate", items |-> S, func |-> func,
     supplied |-> supplied, initial |-> IF supplied THEN v ELSE None,
     agg |-> None, it |-> Iter(S), pc |-> "start", out |-> <<>>,
     raising |-> {}, failed |-> FALSE, cut |-> 0]

RollingInit ==
    /\ ra \in {RollingCall(S, func, supplied, v) :
                  S \in ValInputs, func \in Funcs,
                  supplied \in BOOLEAN, v \in Vals}
    /\ pk = Idle /\ sp = Idle /\ bt = Idle /\ rr = Idle
    /\ ij = Idle /\ fs = Idle /\ mm = Idle /\ pz = Idle
    /\ dr = Idle /\ th = Idle /\ tl = Idle /\ ex = Idle

\* One turn of the for loop: agg = func(agg, item) if agg is not None
\* else item; yield agg.
RollingStep(a) ==
    LET r == IterNext(a.it) IN
    IF r.ok
    THEN IF a.agg # None /\ Raises(a, r.item)
         THEN Fail([a EXCEPT !.it = r.it, !.pc = "raised"], Len(a.out))
         ELSE LET agg == IF a.agg # None THEN a.func[<<a.agg, r.item>>]
                         ELSE r.item IN
              [a EXCEPT !.it = r.it, !.agg = agg, !.pc = "yield",
                        !.out = Append(@, agg)]
    ELSE [a EXCEPT !.it = r.it, !.pc = "done"]

\* next() on the generator; one that an exception of func has ended
\* ("raised") only says StopIteration.
RollingPull ==
    /\ ra.call = "rolling_aggregate" /\ ra.pc \in {"start", "yield", "raised"}
    /\ ra' = CASE ra.pc = "start" -> RollingStep([ra EXCEPT !.agg = ra.initial])
               [] ra.pc = "yield" -> RollingStep(ra)
               [] ra.pc = "raised" -> [ra EXCEPT !.pc = "done"]
    /\ UNCHANGED <<pk, sp, bt, rr, ij, fs, mm, pz, dr, th, tl, ex>>

RollingNext == RollingPull

SpecRolling == RollingInit /\ [][RollingNext]_vars

\* C7: one output per input item; output_1 is combine(initial, item_1)
\* when initial is supplied and item_1 itself when it is not; output_i is
\* combine(output_{i-1}, item_i) for every i > 1, None being a possible
\* item and a possible result of combine.
C7_RollingOutputs ==
    ra.call = "rolling_aggregate" =>
        /\ Len(ra.out) <= Len(ra.items)
        /\ ra.pc = "done" => Len(ra.out) = Len(ra.items)
        /\ \A i \in 1..Len(ra.out) :
              ra.out[i] = IF i = 1
                          THEN IF ra.supplied
                               THEN ra.func[<<ra.initial, ra.items[1]>>]
                               ELSE ra.items[1]
                          ELSE ra.func[<<ra.out[i - 1], ra.items[i]>>]

(***************************************************************************)
(* filter_with_state(items, predicate)                                     *)
(***************************************************************************)
\* predicate is any function of (prev, item).
StatePredicates == [Vals \X Vals -> BOOLEAN]

\* filter_with_state is a generator function: pc is "start", "yield" (at
\* the yield, item being the loop variable; prev = item runs when the
\* generator is resumed) or "done".  calls lists the (prev, item) pairs the
\* predicate has been called on.
FilterStateCall(S, predicate) ==
    [call |-> "filter_with_state", items |-> S, predicate |-> predicate,
     prev |-> None, item |-> None, it |-> Iter(S), pc |-> "start",
     calls |-> <<>>, out |-> <<>>,
     raising |-> {}, failed |-> FALSE, cut |-> 0]

FilterStateInit ==
    /\ fs \in {FilterStateCall(S, predicate) :
                  S \in ValInputs, predicate \in StatePredicates}
    /\ pk = Idle /\ sp = Idle /\ bt = Idle /\ rr = Idle
    /\ ij = Idle /\ ra = Idle /\ mm = Idle /\ pz = Idle
    /\ dr = Idle /\ th = Idle /\ tl = Idle /\ ex = Idle

\* The for loop up to its next yield or its end: prev is None or
\* predicate(prev, item), the predicate being called only when prev is
\* not None.
RECURSIVE FilterStateLoop(_)
FilterStateLoop(f) ==
    LET r == IterNext(f.it) IN
    IF r.ok
    THEN IF f.prev = None
         THEN [f EXCEPT !.it = r.it, !.item = r.item, !.pc = "yield",
                        !.out = Append(@, r.item)]
         ELSE LET f1 == [f EXCEPT !.it = r.it, !.item = r.item,
                                  !.calls = Append(@, <<f.prev, r.item>>)] IN
              IF Raises(f, r.item)
              THEN Fail([f1 EXCEPT !.pc = "raised"], Len(f.out))
              ELSE IF f.predicate[<<f.prev, r.item>>]
                   THEN [f1 EXCEPT !.pc = "yield", !.out = Append(@, r.item)]
                   ELSE FilterStateLoop([f1 EXCEPT !.prev = r.item])
    ELSE [f EXCEPT !.it = r.it, !.pc = "done"]

\* next() on the generator; one that an exception of the predicate has
\* ended ("raised") only says StopIteration.
FilterStatePull ==
    /\ fs.call = "filter_with_state" /\ fs.pc \in {"start", "yield", "raised"}
    /\ fs' = CASE fs.pc = "start" -> FilterStateLoop(fs)
               [] fs.pc = "yield" -> FilterStateLoop([fs EXCEPT !.prev = fs.item])
               [] fs.pc = "raised" -> [fs EXCEPT !.pc = "done"]
    /\ UNCHANGED <<pk, sp, bt, rr, ij, ra, mm, pz, dr, th, tl, ex>>

FilterStateNext == FilterStatePull

SpecFilterState == FilterStateInit /\ [][FilterStateNext]_vars

\* Of the first n items: the first, and every later one the predicate
\* holds of together with the item read just before it.
RECURSIVE EmittedOf(_, _, _)
EmittedOf(S, predicate, n) ==
    IF n = 0 THEN <<>>
    ELSE EmittedOf(S, predicate, n - 1) \o
         (IF n = 1 \/ predicate[<<S[n - 1], S[n]>>] THEN <<S[n]>> ELSE <<>>)

\* C8: whatever the item values, None included, the first item is emitted
\* and each later item x_i is emitted iff predicate(x_{i-1}, x_i), x_{i-1}
\* being the item read just before; the predicate is consulted for every
\* item other than the first.
C8_FilterWithState ==
    fs.call = "filter_with_state" =>
        /\ fs.out = EmittedOf(fs.items, fs.predicate, fs.it.pos)
        /\ fs.calls = [i \in 1..(IF fs.it.pos = 0 THEN 0 ELSE fs.it.pos - 1) |->
                          <<fs.items[i], fs.items[i + 1]>>]

(***************************************************************************)
(* multimap(functions, items)                                              *)
(***************************************************************************)
\* The functions a caller may pass, by name, and what each computes.
Fns == {"inc", "dbl"}

Apply(f, x) == IF f = "inc" THEN x + 1 ELSE 2 * x

\* The last function innermost.
FnAtReversed(functions, d) == functions[Len(functions) + 1 - d]

\* reduce(lambda i, f: map(f, i), functions, items) wraps items in one map
\* per function, the first function innermost: the map at depth d applies
\* functions[d].
FnAt(functions, d) == functions[d]

\* The state right after multimap returned: the maps are built and nothing
\* has been pulled.  calls lists the calls made so far, each as <<j, k>>:
\* the j-th function called while k items had been pulled from the input.
MultimapCall(S, functions) ==
    [call |-> "multimap", items |-> S, functions |-> functions,
     it |-> Iter(S), calls |-> <<>>, out |-> <<>>, done |-> FALSE,
     raising |-> {}, err |-> FALSE, failed |-> FALSE, cut |-> 0]

MultimapInit ==
    /\ mm \in {MultimapCall(S, functions) :
                  S \in Inputs, functions \in SeqsUpTo(Fns, MaxFns)}
    /\ pk = Idle /\ sp = Idle /\ bt = Idle /\ rr = Idle
    /\ ij = Idle /\ ra = Idle /\ fs = Idle /\ pz = Idle
    /\ dr = Idle /\ th = Idle /\ tl = Idle /\ ex = Idle

\* next() of the map at depth d (depth 0: the input's iterator): pull one
\* item from the map below and call this map's function on it.
RECURSIVE MapNext(_, _)
MapNext(m, d) ==
    IF d = 0
    THEN LET r == IterNext(m.it) IN
         [ok |-> r.ok, item |-> r.item, st |-> [m EXCEPT !.it = r.it]]
    ELSE LET r == MapNext(m, d - 1) IN
         IF r.ok
         THEN LET m1 == [r.st EXCEPT !.calls =
                            Append(@, <<d, r.st.it.pos>>)] IN
              IF Raises(m, r.item)
              THEN [ok |-> FALSE, item |-> 0, st |-> [m1 EXCEPT !.err = TRUE]]
              ELSE [ok |-> TRUE, item |-> Apply(FnAt(m.functions, d), r.item),
                    st |-> m1]
         ELSE r

MultimapPull ==
    /\ mm.call = "multimap" /\ ~mm.done
    /\ LET r == MapNext(mm, Len(mm.functions)) IN
       IF r.ok
       THEN mm' = [r.st EXCEPT !.out = Append(@, r.item)]
       ELSE IF r.st.err
            THEN mm' = [Fail(r.st, Len(mm.out)) EXCEPT !.err = FALSE]
            ELSE mm' = [r.st EXCEPT !.done = TRUE]
    /\ UNCHANGED <<pk, sp, bt, rr, ij, ra, fs, pz, dr, th, tl, ex>>

MultimapNext == MultimapPull

SpecMultimap == MultimapInit /\ [][MultimapNext]_vars

\* f_n(...f_1(x)).
RECURSIVE Composed(_, _)
Composed(functions, x) ==
    IF functions = <<>> THEN x
    ELSE Apply(functions[Len(functions)],
               Composed(SubSeq(functions, 1, Len(functions) - 1), x))

\* The calls behind k outputs: f_1..f_n on item 1, then on item 2, ...
CallsFor(functions, k) ==
    [c \in 1..(k * Len(functions)) |->
        <<((c - 1) % Len(functions)) + 1,
          ((c - 1) \div Len(functions)) + 1>>]

\* C9: the output is f_n(...f_1(x)) for each x of S in order (S itself for
\* no function); after the k-th output exactly k items have been pulled
\* from the input and each f_j has been called k times, f_1..f_n on item k
\* before any call on item k+1.
C9_MultimapLazyComposition ==
    mm.call = "multimap" =>
        /\ Len(mm.out) <= Len(mm.items)
        /\ \A i \in 1..Len(mm.out) : mm.out[i] = Composed(mm.functions, mm.items[i])
        /\ mm.functions = <<>> => IsPrefix(mm.out, mm.items)
        /\ mm.done => Len(mm.out) = Len(mm.items)
        /\ mm.it.pos = Len(mm.out)
        /\ mm.calls = CallsFor(mm.functions, Len(mm.out))

\* Two outputs pulled of (inc, dbl) over a three-item input: four calls.
C9_Witness ==
    /\ mm.call = "multimap" /\ mm.functions = <<"inc", "dbl">>
    /\ Len(mm.items) = 3 /\ Len(mm.out) = 2 /\ Len(mm.calls) = 4
    /\ mm.out[1] = 2 * (mm.items[1] + 1)

(***************************************************************************)
(* parallelize(function, items)                                            *)
(*                                                                         *)
(* with multiprocessing.Pool() as pool:                                    *)
(*     yield from pool.imap_unordered(function, items)                     *)
(*                                                                         *)
(* The pool's task handler thread pulls the items one at a time and puts   *)
(* one task per item on the in-queue, then sets the job's length; each     *)
(* worker process takes a task, calls the function and puts the result on  *)
(* the out-queue; the result handler thread moves results, as they come,   *)
(* to the job's item list, from which next() pops.  These run concurrently *)
(* with the consumer, so each is an action of its own.                     *)
(***************************************************************************)
\* Stopping as soon as the length is known and no result is waiting.
ExhaustedLengthOnly(p) == p.items_ = <<>> /\ p.lengthSet

\* next() of the imap_unordered iterator stops when no result is waiting
\* and every task's result has arrived (_index == _length).
Exhausted(p) == p.items_ = <<>> /\ p.lengthSet /\ p.index = p.sent

\* No with block: the pool is left as it is.
PoolLeftOpen(pool) == pool

\* Leaving the with block, by whatever way, calls pool.terminate().
PoolAfterExit(pool) == "terminated"

\* parallelize is a generator function: pc is "start", "waiting" (inside
\* next() of the imap_unordered iterator), "yield", "done", "raised" (an
\* exception of the function came out of next()) or "closed".  sent counts
\* the tasks generated, index the results arrived, runs[i] the calls of the
\* function on the i-th item; the function raises on the items in raising.
ParallelizeCall(S, function, processes) ==
    [call |-> "parallelize", items |-> S, function |-> function,
     processes |-> processes, pool |-> "none", it |-> Iter(S),
     inqueue |-> <<>>, sent |-> 0, lengthSet |-> FALSE,
     workers |-> [w \in 1..processes |-> <<>>],
     outqueue |-> <<>>, items_ |-> <<>>, index |-> 0,
     runs |-> [i \in 1..Len(S) |-> 0], raising |-> {},
     pc |-> "start", out |-> <<>>]

ParallelizeInit ==
    /\ pz \in {ParallelizeCall(S, function, processes) :
                  S \in Inputs, function \in Fns, processes \in 1..MaxWorkers}
    /\ pk = Idle /\ sp = Idle /\ bt = Idle /\ rr = Idle
    /\ ij = Idle /\ ra = Idle /\ fs = Idle /\ mm = Idle
    /\ dr = Idle /\ th = Idle /\ tl = Idle /\ ex = Idle

\* The first next(): the pool is created, imap_unordered hands the items
\* to the task handler and the consumer waits for a result.
ParStart ==
    /\ pz.call = "parallelize" /\ pz.pc = "start"
    /\ pz' = [pz EXCEPT !.pool = "live", !.pc = "waiting"]
    /\ UNCHANGED <<pk, sp, bt, rr, ij, ra, fs, mm, dr, th, tl, ex>>

\* A later next().
ParPull ==
    /\ pz.call = "parallelize" /\ pz.pc = "yield"
    /\ pz' = [pz EXCEPT !.pc = "waiting"]
    /\ UNCHANGED <<pk, sp, bt, rr, ij, ra, fs, mm, dr, th, tl, ex>>

\* Task handler: the next item becomes a task, or the input has ended and
\* the job's length is set.
ParFeed ==
    /\ pz.call = "parallelize" /\ pz.pool = "live" /\ ~pz.lengthSet
    /\ LET r == IterNext(pz.it) IN
       IF r.ok
       THEN pz' = [pz EXCEPT !.it = r.it, !.sent = @ + 1,
                             !.inqueue = Append(@, <<pz.sent + 1, r.item>>)]
       ELSE pz' = [pz EXCEPT !.it = r.it, !.lengthSet = TRUE]
    /\ UNCHANGED <<pk, sp, bt, rr, ij, ra, fs, mm, dr, th, tl, ex>>

\* An idle worker takes the task at the head of the in-queue.
ParTake(w) ==
    /\ pz.call = "parallelize" /\ pz.pool = "live"
    /\ pz.workers[w] = <<>> /\ pz.inqueue # <<>>
    /\ pz' = [pz EXCEPT !.workers[w] = Head(pz.inqueue),
                        !.inqueue = Tail(@)]
    /\ UNCHANGED <<pk, sp, bt, rr, ij, ra, fs, mm, dr, th, tl, ex>>

\* A worker calls the function on its task's item and puts the result:
\* the value, or the exception the call raised.
ParFinish(w) ==
    /\ pz.call = "parallelize" /\ pz.pool = "live"
    /\ pz.workers[w] # <<>>
    /\ LET task == pz.workers[w] IN
       pz' = [pz EXCEPT !.workers[w] = <<>>,
                        !.runs[task[1]] = @ + 1,
                        !.outqueue = Append(@,
                            IF task[2] \in pz.raising
                            THEN [ok |-> FALSE, value |-> task[2]]
                            ELSE [ok |-> TRUE,
                                  value |-> Apply(pz.function, task[2])])]
    /\ UNCHANGED <<pk, sp, bt, rr, ij, ra, fs, mm, dr, th, tl, ex>>

\* Result handler: a result arrives at the job.
ParResult ==
    /\ pz.call = "parallelize" /\ pz.pool = "live"
    /\ pz.outqueue # <<>>
    /\ pz' = [pz EXCEPT !.outqueue = Tail(@), !.index = @ + 1,
                        !.items_ = Append(@, Head(pz.outqueue))]
    /\ UNCHANGED <<pk, sp, bt, rr, ij, ra, fs, mm, dr, th, tl, ex>>

\* The waiting consumer gets the oldest waiting result.
ParYield ==
    /\ pz.call = "parallelize" /\ pz.pc = "waiting"
    /\ pz.items_ # <<>> /\ Head(pz.items_).ok
    /\ pz' = [pz EXCEPT !.items_ = Tail(@), !.pc = "yield",
                        !.out = Append(@, Head(pz.items_).value)]
    /\ UNCHANGED <<pk, sp, bt, rr, ij, ra, fs, mm, dr, th, tl, ex>>

\* The iterator is exhausted: the with block ends and terminates the pool.
ParStop ==
    /\ pz.call = "parallelize" /\ pz.pc = "waiting"
    /\ Exhausted(pz)
    /\ pz' = [pz EXCEPT !.pc = "done", !.pool = PoolAfterExit(@)]
    /\ UNCHANGED <<pk, sp, bt, rr, ij, ra, fs, mm, dr, th, tl, ex>>

ParallelizeNext ==
    \/ ParStart
    \/ ParPull
    \/ ParFeed
    \/ \E w \in 1..MaxWorkers : w <= pz.processes /\ ParTake(w)
    \/ \E w \in 1..MaxWorkers : w <= pz.processes /\ ParFinish(w)
    \/ ParResult
    \/ ParYield
    \/ ParStop

SpecParallelize == ParallelizeInit /\ [][ParallelizeNext]_vars

Count(s, v) == Cardinality({i \in 1..Len(s) : s[i] = v})

Mapped(function, S) == [i \in 1..Len(S) |-> Apply(function, S[i])]

Range(s) == {s[i] : i \in 1..Len(s)}

\* C10: parallelize(f, S), fully drained, yields the multiset {f(x) : x in
\* S}: every item is processed exactly once whatever the order in which
\* the workers complete; an empty input yields an empty output.
C10_ParallelizeMultiset ==
    pz.call = "parallelize" =>
        /\ \A i \in 1..Len(pz.items) : pz.runs[i] <= 1
        /\ \A v \in Range(pz.out) :
              Count(pz.out, v) <= Count(Mapped(pz.function, pz.items), v)
        /\ pz.pc = "done" =>
              /\ \A i \in 1..Len(pz.items) : pz.runs[i] = 1
              /\ Len(pz.out) = Len(pz.items)
              /\ \A v \in Range(pz.out) \cup Range(Mapped(pz.function, pz.items)) :
                    Count(pz.out, v) = Count(Mapped(pz.function, pz.items), v)
              /\ pz.items = <<>> => pz.out = <<>>

\* Drained over two workers, the results not in input order.
C10_Witness ==
    /\ pz.call = "parallelize" /\ pz.pc = "done" /\ pz.processes = 2
    /\ Len(pz.items) = 3 /\ Len(pz.out) = 3
    /\ pz.out # Mapped(pz.function, pz.items)

(***************************************************************************)
(* The duplicating primitives together: peek and split share the source    *)
(* between two consumers through itertools.tee.                            *)
(***************************************************************************)
SpecTee == (PeekInit \/ SplitInit) /\ [][PeekNext \/ SplitNext]_vars

\* What a tee has pulled from its source is what the reader in front has
\* read, and the buffer holds exactly those items, so the reader behind
\* never makes the source move.
ReadOnce(t, S) ==
    /\ t.src.pos = Max(t.rd[1], t.rd[2])
    /\ t.src.pos <= Len(S)
    /\ t.buf = SubSeq(S, 1, t.src.pos)

\* C11: peek and split never read an item of the source more than once:
\* in every reachable state, under any interleaving of the pulls on the
\* two outputs, the number of items pulled from the source equals the
\* furthest position reached by either consumer, at most |S|; the consumer
\* behind is served from the buffer.
C11_SourceReadOnce ==
    /\ (pk.call = "peek" /\ ~pk.raised) =>
          /\ ReadOnce(pk.tee, pk.items)
          /\ pk.tee.rd[1] = Len(pk.peeked)
          /\ pk.tee.rd[2] = Len(pk.cont)
    /\ sp.call = "split" =>
          /\ ReadOnce(sp.tee, sp.items)
          /\ sp.tee.rd[1] = Len(sp.evals[1])
          /\ sp.tee.rd[2] = Len(sp.evals[2])

\* A single-pass source of three items drained through the continuation,
\* then two items handed to peeked without the source moving.
C11_Witness ==
    /\ pk.call = "peek" /\ pk.kind = "iterator" /\ Len(pk.items) = 3
    /\ pk.tee.rd = <<2, 3>> /\ pk.tee.src.pos = 3 /\ pk.contDone

(***************************************************************************)
(* drop_random(items, rate)                                                *)
(***************************************************************************)
\* rate in units of 1 / RateSteps: below 0, 0 .. 1, above 1.
Rates == -1..(RateSteps + 1)

\* random.random() is in [0, 1): 0 .. RateSteps - 1 in the same units.
Draws == 0..(RateSteps - 1)

\* No validation of rate.
RateUnchecked(rate) == FALSE

\* if not 0 <= rate <= 1: raise ValueError
RateInvalid(rate) == ~(0 <= rate /\ rate <= RateSteps)

\* drop_random is a generator function; pc is "start" (not started),
\* "yield" (suspended in yield from), "done" or "raised" (ValueError).
DropRandomCall(S, rate) ==
    [call |-> "drop_random", items |-> S, rate |-> rate, it |-> Iter(S),
     draws |-> <<>>, pc |-> "start", out |-> <<>>]

DropRandomInit ==
    /\ dr \in {DropRandomCall(S, rate) : S \in Inputs, rate \in Rates}
    /\ pk = Idle /\ sp = Idle /\ bt = Idle /\ rr = Idle /\ ij = Idle
    /\ ra = Idle /\ fs = Idle /\ mm = Idle /\ pz = Idle
    /\ th = Idle /\ tl = Idle /\ ex = Idle

\* next() of (item for item in items if random.random() < rate): u is what
\* random.random() returns for the items to come, one draw per item.
RECURSIVE DropRandomLoop(_, _)
DropRandomLoop(d, u) ==
    LET r == IterNext(d.it) IN
    IF r.ok
    THEN LET d1 == [d EXCEPT !.it = r.it, !.draws = Append(@, u[r.it.pos])] IN
         IF u[r.it.pos] < d.rate
         THEN [d1 EXCEPT !.pc = "yield", !.out = Append(@, r.item)]
         ELSE DropRandomLoop(d1, u)
    ELSE [d EXCEPT !.it = r.it, !.pc = "done"]

\* next() on the generator.
DropRandomPull ==
    /\ dr.call = "drop_random" /\ dr.pc \in {"start", "yield"}
    /\ \E u \in [1..Len(dr.items) -> Draws] :
          dr' = IF dr.pc = "start" /\ RateInvalid(dr.rate)
                THEN [dr EXCEPT !.pc = "raised"]
                ELSE DropRandomLoop(dr, u)
    /\ UNCHANGED <<pk, sp, bt, rr, ij, ra, fs, mm, pz, th, tl, ex>>

DropRandomNext == DropRandomPull

SpecDropRandom == DropRandomInit /\ [][DropRandomNext]_vars

(***************************************************************************)
(* The generator functions that validate an argument: batches and          *)
(* drop_random.                                                            *)
(***************************************************************************)
SpecValidated ==
    (BatchesInit \/ DropRandomInit) /\ [][BatchesNext \/ DropRandomNext]_vars

\* C12: batches with batch_size < 2 and drop_random with rate < 0 or
\* rate > 1 fail with ValueError when the result is consumed, for every
\* input, also the empty one: the first pull raises, before any item has
\* been pulled from the input and before any output is produced.
C12_InvalidArgumentOnFirstPull ==
    /\ (bt.call = "batches" /\ bt.batch_size < 2) =>
          /\ bt.pc \in {"start", "raised"}
          /\ bt.it.pos = 0 /\ bt.out = <<>>
    /\ (dr.call = "drop_random" /\ (dr.rate < 0 \/ dr.rate > RateSteps)) =>
          /\ dr.pc \in {"start", "raised"}
          /\ dr.it.pos = 0 /\ dr.out = <<>> /\ dr.draws = <<>>

\* batches of size one over three items, pulled once: ValueError.
C12_Witness ==
    /\ bt.call = "batches" /\ bt.batch_size = 1 /\ Len(bt.items) = 3
    /\ bt.pc = "raised" /\ bt.it.pos = 0

(***************************************************************************)
(* throttle(items, max_rate)                                               *)
(***************************************************************************)
\* What happens around an item the loop has pulled, as a list of events:
\* the yield first and the sleep after it.
ThrottleTurnSleepAfter(item, max_rate) ==
    << <<"emit", item>>, <<"sleep", max_rate>> >>

\* time.sleep(interval), then yield item; the sleep of interval =
\* 1.0 / max_rate seconds is recorded by its max_rate.
ThrottleTurn(item, max_rate) ==
    << <<"sleep", max_rate>>, <<"emit", item>> >>

\* throttle is a generator function; pc is "start" (not started), "yield",
\* "done" or "raised", raised naming the exception.  events lists, in
\* order, the pulls on items (by position, 0 for the pull that finds the
\* end), the sleeps and the emissions.
ThrottleCall(S, max_rate) ==
    [call |-> "throttle", items |-> S, max_rate |-> max_rate, it |-> Iter(S),
     events |-> <<>>, pc |-> "start", raised |-> "none", out |-> <<>>]

ThrottleInit ==
    /\ th \in {ThrottleCall(S, max_rate) : S \in Inputs, max_rate \in -1..MaxRate}
    /\ pk = Idle /\ sp = Idle /\ bt = Idle /\ rr = Idle /\ ij = Idle
    /\ ra = Idle /\ fs = Idle /\ mm = Idle /\ pz = Idle
    /\ dr = Idle /\ tl = Idle /\ ex = Idle

\* One turn of the for loop: the next item, the sleep, the yield.  A
\* negative interval makes time.sleep raise ValueError.
ThrottleLoop(t) ==
    LET r == IterNext(t.it) IN
    IF r.ok
    THEN LET t1 == [t EXCEPT !.it = r.it,
                             !.events = Append(@, <<"pull", r.it.pos>>)] IN
         IF t.max_rate < 0
         THEN [t1 EXCEPT !.pc = "raised", !.raised = "ValueError"]
         ELSE [t1 EXCEPT !.events = @ \o ThrottleTurn(r.item, t.max_rate),
                         !.pc = "yield", !.out = Append(@, r.item)]
    ELSE [t EXCEPT !.it = r.it, !.events = Append(@, <<"pull", 0>>),
                   !.pc = "done"]

\* next() on the generator; the first one computes interval = 1.0 /
\* max_rate, a ZeroDivisionError when max_rate is 0.
ThrottlePull ==
    /\ th.call = "throttle" /\ th.pc \in {"start", "yield"}
    /\ th' = IF th.pc = "start" /\ th.max_rate = 0
             THEN [th EXCEPT !.pc = "raised", !.raised = "ZeroDivisionError"]
             ELSE ThrottleLoop(th)
    /\ UNCHANGED <<pk, sp, bt, rr, ij, ra, fs, mm, pz, dr, tl, ex>>

ThrottleNext == ThrottlePull

SpecThrottle == ThrottleInit /\ [][ThrottleNext]_vars

(***************************************************************************)
(* The primitives that reject an argument: batches, drop_random, throttle  *)
(* and peek.                                                               *)
(***************************************************************************)
SpecCalls ==
    /\ BatchesInit \/ DropRandomInit \/ ThrottleInit \/ PeekInit
    /\ [][BatchesNext \/ DropRandomNext \/ ThrottleNext \/ PeekNext]_vars

\* C13: for batches (batch_size < 2), drop_random (rate outside [0, 1]),
\* throttle (max_rate <= 0) and peek (num_items < 0) the error is raised
\* by the call itself: every state from the one right after the call on
\* has the error, none waits for a first pull.
C13_RaisedByTheCall ==
    /\ (bt.call = "batches" /\ bt.batch_size < 2) => bt.pc = "raised"
    /\ (dr.call = "drop_random" /\ (dr.rate < 0 \/ dr.rate > RateSteps)) =>
          dr.pc = "raised"
    /\ (th.call = "throttle" /\ th.max_rate <= 0) => th.pc = "raised"
    /\ (pk.call = "peek" /\ pk.num_items < 0) => pk.raised

\* C14: throttle with max_rate <= 0 fails with ValueError, the error of
\* the other argument checks, for every input, also the empty one, and
\* emits no item.
C14_ThrottleRejectsRate ==
    (th.call = "throttle" /\ th.max_rate <= 0) =>
        /\ th.out = <<>>
        /\ th.pc # "start" => (th.pc = "raised" /\ th.raised = "ValueError")

\* The events of the first k turns of throttle over S at max_rate.
RECURSIVE ThrottleEvents(_, _, _)
ThrottleEvents(S, max_rate, k) ==
    IF k = 0 THEN <<>>
    ELSE ThrottleEvents(S, max_rate, k - 1)
            \o << <<"pull", k>>, <<"sleep", max_rate>>, <<"emit", S[k]>> >>

EventCount(events, kind) ==
    Cardinality({i \in 1..Len(events) : events[i][1] = kind})

\* C15: for max_rate > 0 throttle yields exactly the items of S in order,
\* each emission immediately preceded by exactly one suspension of
\* 1 / max_rate: the events are (pull item i, suspend, emit item i) for
\* i = 1, 2, ..., so k emitted items come with k suspensions and at most
\* k + 1 pulls.
C15_ThrottlePaced ==
    (th.call = "throttle" /\ th.max_rate > 0) =>
        /\ th.pc # "raised"
        /\ IsPrefix(th.out, th.items)
        /\ th.pc = "done" => th.out = th.items
        /\ th.events = ThrottleEvents(th.items, th.max_rate, Len(th.out))
                          \o (IF th.pc = "done" THEN << <<"pull", 0>> >> ELSE <<>>)
        /\ EventCount(th.events, "emit") = Len(th.out)
        /\ EventCount(th.events, "sleep") = Len(th.out)
        /\ EventCount(th.events, "pull") <= Len(th.out) + 1
        /\ th.it.pos = Len(th.out)

\* Three items at two per time unit, drained: three sleeps, four pulls.
C15_Witness ==
    /\ th.call = "throttle" /\ th.max_rate = 2 /\ th.pc = "done"
    /\ Len(th.out) = 3 /\ EventCount(th.events, "sleep") = 3
    /\ EventCount(th.events, "pull") = 4

(***************************************************************************)
(* time_limited_stream(items, max_duration, delay_per_item)                *)
(***************************************************************************)
\* Time is counted in ticks since start_time.  Every reading above
\* max_duration fails the check alike, so the clock stops at ClockCap.
ClockCap == MaxDuration + 1

Later(elapsed, ticks) == Min(elapsed + ticks, ClockCap)

\* No sleep between the items.
TimeLimitedNoSleep(elapsed, delay_per_item) == elapsed

\* if delay_per_item: time.sleep(delay_per_item)
TimeLimitedSleep(elapsed, delay_per_item) == Later(elapsed, delay_per_item)

\* time_limited_stream is a generator function; pc is "start" (not
\* started: start_time is not taken yet), "yield" or "done".  checks lists
\* time.time() - start_time as read by each check, stopped whether a check
\* ever found it above max_duration.
TimeLimitedCall(S, max_duration, delay_per_item) ==
    [call |-> "time_limited_stream", items |-> S,
     max_duration |-> max_duration, delay_per_item |-> delay_per_item,
     it |-> Iter(S), elapsed |-> 0, checks |-> <<>>, stopped |-> FALSE,
     pc |-> "start", out |-> <<>>]

TimeLimitedInit ==
    /\ tl \in {TimeLimitedCall(S, max_duration, delay_per_item) :
                  S \in Inputs, max_duration \in -1..MaxDuration,
                  delay_per_item \in 0..MaxDelay}
    /\ pk = Idle /\ sp = Idle /\ bt = Idle /\ rr = Idle /\ ij = Idle
    /\ ra = Idle /\ fs = Idle /\ mm = Idle /\ pz = Idle
    /\ dr = Idle /\ th = Idle /\ ex = Idle

\* One turn of the for loop: the next item is pulled from items, which
\* takes ticks of time, and only then is the clock read.
TimeLimitedLoop(t, ticks) ==
    LET r == IterNext(t.it) IN
    IF r.ok
    THEN LET now == Later(t.elapsed, ticks)
             t1 == [t EXCEPT !.it = r.it, !.elapsed = now,
                             !.checks = Append(@, now)] IN
         IF now > t.max_duration
         THEN [t1 EXCEPT !.pc = "done", !.stopped = TRUE]
         ELSE [t1 EXCEPT !.pc = "yield", !.out = Append(@, r.item)]
    ELSE [t EXCEPT !.it = r.it, !.pc = "done"]

\* next() on the generator: the first one takes start_time, a later one
\* resumes after the yield, at the sleep.
TimeLimitedPull ==
    /\ tl.call = "time_limited_stream" /\ tl.pc \in {"start", "yield"}
    /\ \E ticks \in 0..1 :
          tl' = IF tl.pc = "start"
                THEN TimeLimitedLoop(tl, ticks)
                ELSE IF tl.delay_per_item # 0
                     THEN TimeLimitedLoop(
                              [tl EXCEPT !.elapsed =
                                   TimeLimitedSleep(@, tl.delay_per_item)],
                              ticks)
                     ELSE TimeLimitedLoop(tl, ticks)
    /\ UNCHANGED <<pk, sp, bt, rr, ij, ra, fs, mm, pz, dr, th, ex>>

\* Time passes while the consumer holds the generator suspended (or a
\* sleep lasts longer than asked).
TimeLimitedTick ==
    /\ tl.call = "time_limited_stream" /\ tl.pc = "yield"
    /\ tl.elapsed < ClockCap
    /\ tl' = [tl EXCEPT !.elapsed = Later(@, 1)]
    /\ UNCHANGED <<pk, sp, bt, rr, ij, ra, fs, mm, pz, dr, th, ex>>

TimeLimitedNext == TimeLimitedPull \/ TimeLimitedTick

SpecTimeLimited == TimeLimitedInit /\ [][TimeLimitedNext]_vars

\* C16: when time_limited_stream stops because the elapsed time exceeds
\* max_duration, it has not consumed the item it was about to emit: as
\* many items have been pulled from the input as have been emitted, so a
\* single-pass input still holds every item that was not emitted.
C16_NoItemLostAtTimeout ==
    (tl.call = "time_limited_stream" /\ tl.stopped) =>
        tl.it.pos = Len(tl.out)

\* C17: an item is emitted only if the elapsed time was at most
\* max_duration at that item's check, and after the first check that
\* finds it above nothing is emitted again; with delay_per_item = d > 0
\* at most floor(max_duration / d) + 1 items are emitted, and at least one
\* when the input is non-empty and the first check passes.
C17_TimeLimitedEmissions ==
    tl.call = "time_limited_stream" =>
        /\ IsPrefix(tl.out, tl.items)
        /\ \A i \in 1..Len(tl.out) : tl.checks[i] <= tl.max_duration
        /\ Len(tl.checks) = Len(tl.out) + (IF tl.stopped THEN 1 ELSE 0)
        /\ tl.stopped =>
              /\ tl.checks[Len(tl.checks)] > tl.max_duration
              /\ tl.pc = "done"
        /\ tl.delay_per_item > 0 =>
              Len(tl.out) <= (tl.max_duration \div tl.delay_per_item) + 1
        /\ (tl.checks # <<>> /\ tl.checks[1] <= tl.max_duration) =>
              Len(tl.out) >= 1
        /\ (tl.pc = "done" /\ ~tl.stopped) => tl.out = tl.items

\* Three items, a budget of two ticks and a sleep of one tick per item,
\* no time lost elsewhere: all floor(2 / 1) + 1 = 3 items are emitted.
C17_Witness ==
    /\ tl.call = "time_limited_stream" /\ Len(tl.items) = 3
    /\ tl.max_duration = 2 /\ tl.delay_per_item = 1
    /\ tl.checks = <<0, 1, 2>> /\ Len(tl.out) = 3

(***************************************************************************)
(* exhaust(items)                                                          *)
(***************************************************************************)
\* Every item kept, as list(items) would.
HoldAll(held, item) == Append(held, item)

\* for _ in items: the loop variable refers to the last item and to no
\* other.
Hold(held, item) == <<item>>

\* iter(items): of an iterator the iterator itself, whose cursor is where
\* it was left; of a replayable input a fresh cursor.
IterOf(kind, S, it) == IF kind = "iterator" THEN it ELSE Iter(S)

\* What a traversal from cursor it yields.
RECURSIVE Rest(_)
Rest(it) ==
    LET r == IterNext(it) IN
    IF r.ok THEN <<r.item>> \o Rest(r.it) ELSE <<>>

\* exhaust is an ordinary function: the state is that of the call having
\* taken iter(items).  pc is "loop", "returned" or "after" (the caller has
\* traversed items once more, getting again).
ExhaustCall(S, kind) ==
    [call |-> "exhaust", items |-> S, kind |-> kind,
     it |-> IterOf(kind, S, Iter(S)), held |-> <<>>, pulled |-> <<>>,
     pulls |-> 0, result |-> "unset", again |-> <<>>, pc |-> "loop"]

ExhaustInit ==
    /\ ex \in {ExhaustCall(S, kind) : S \in Inputs, kind \in Kinds}
    /\ pk = Idle /\ sp = Idle /\ bt = Idle /\ rr = Idle /\ ij = Idle
    /\ ra = Idle /\ fs = Idle /\ mm = Idle /\ pz = Idle
    /\ dr = Idle /\ th = Idle /\ tl = Idle

\* One turn of the for loop; at the end of the input the function returns
\* None and its locals are gone.
ExhaustStep ==
    /\ ex.call = "exhaust" /\ ex.pc = "loop"
    /\ LET r == IterNext(ex.it) IN
       IF r.ok
       THEN ex' = [ex EXCEPT !.it = r.it, !.pulls = @ + 1,
                             !.held = Hold(@, r.item),
                             !.pulled = Append(@, r.item)]
       ELSE ex' = [ex EXCEPT !.it = r.it, !.pulls = @ + 1, !.held = <<>>,
                             !.result = None, !.pc = "returned"]
    /\ UNCHANGED <<pk, sp, bt, rr, ij, ra, fs, mm, pz, dr, th, tl>>

\* The caller traverses items after exhaust returned.
ExhaustTraverseAgain ==
    /\ ex.call = "exhaust" /\ ex.pc = "returned"
    /\ ex' = [ex EXCEPT !.again = Rest(IterOf(ex.kind, ex.items, ex.it)),
                        !.pc = "after"]
    /\ UNCHANGED <<pk, sp, bt, rr, ij, ra, fs, mm, pz, dr, th, tl>>

ExhaustNext == ExhaustStep \/ ExhaustTraverseAgain

SpecExhaust == ExhaustInit /\ [][ExhaustNext]_vars

\* C18: exhaust on a finite input terminates after pulling every item
\* exactly once (|S| + 1 pulls, the last finding the end), holds at most
\* one item at a time and returns nothing; afterwards a single-pass input
\* yields no further item and a replayable input can still be traversed
\* from its start.
C18_ExhaustDrains ==
    ex.call = "exhaust" =>
        /\ Len(ex.held) <= 1
        /\ IsPrefix(ex.pulled, ex.items)
        /\ ex.pulls <= Len(ex.items) + 1
        /\ ex.pc = "loop" => (ex.pulls = Len(ex.pulled) /\ ex.result = "unset")
        /\ ex.pc \in {"returned", "after"} =>
              /\ ex.pulled = ex.items
              /\ ex.pulls = Len(ex.items) + 1
              /\ ex.result = None /\ ex.held = <<>>
        /\ ex.pc = "after" =>
              ex.again = IF ex.kind = "iterator" THEN <<>> ELSE ex.items

\* A single-pass input of three items, exhausted and found empty after.
C18_Witness ==
    /\ ex.call = "exhaust" /\ ex.kind = "iterator" /\ Len(ex.items) = 3
    /\ ex.pc = "after" /\ ex.again = <<>> /\ ex.pulls = 4

(***************************************************************************)
(* parallelize with a function that may raise and a consumer that may      *)
(* close the generator.                                                    *)
(***************************************************************************)
\* The function raises on no item, or on item 1.
Raising == {{}, {1}}

PoolInit ==
    /\ pz \in {[ParallelizeCall(S, function, processes) EXCEPT !.raising = R] :
                  S \in Inputs, function \in Fns, processes \in 1..MaxWorkers,
                  R \in Raising}
    /\ pk = Idle /\ sp = Idle /\ bt = Idle /\ rr = Idle
    /\ ij = Idle /\ ra = Idle /\ fs = Idle /\ mm = Idle
    /\ dr = Idle /\ th = Idle /\ tl = Idle /\ ex = Idle

\* The waiting consumer gets a failed result: next() raises the worker's
\* exception, which leaves the with block and ends the generator.
ParRaise ==
    /\ pz.call = "parallelize" /\ pz.pc = "waiting"
    /\ pz.items_ # <<>> /\ ~Head(pz.items_).ok
    /\ pz' = [pz EXCEPT !.items_ = Tail(@), !.pc = "raised",
                        !.pool = PoolAfterExit(@)]
    /\ UNCHANGED <<pk, sp, bt, rr, ij, ra, fs, mm, dr, th, tl, ex>>

\* close() on the generator (also what dropping its last reference does):
\* suspended at the yield from, GeneratorExit leaves the with block; not
\* yet started, there is no with block to leave.
ParClose ==
    /\ pz.call = "parallelize" /\ pz.pc \in {"start", "yield"}
    /\ pz' = [pz EXCEPT !.pc = "closed",
                        !.pool = IF pz.pc = "start" THEN @
                                 ELSE PoolAfterExit(@)]
    /\ UNCHANGED <<pk, sp, bt, rr, ij, ra, fs, mm, dr, th, tl, ex>>

PoolNext == ParallelizeNext \/ ParRaise \/ ParClose

SpecPool == PoolInit /\ [][PoolNext]_vars

\* C19: the pool of parallelize is always released: once the output is
\* exhausted, or the generator is closed after partial consumption, or a
\* worker's error has come out, the pool is shut down; no state in which
\* nothing more can happen has a live pool, and no pool exists before the
\* first pull.
C19_PoolReleased ==
    pz.call = "parallelize" =>
        /\ pz.pc = "start" => pz.pool = "none"
        /\ pz.pc \in {"done", "raised", "closed"} => pz.pool # "live"
        /\ pz.pool = "live" <=> pz.pc \in {"waiting", "yield"}
        /\ pz.pool = "none" => (pz.it.pos = 0 /\ pz.out = <<>>)
        /\ ~(ENABLED PoolNext) => pz.pool # "live"

\* Closed after one of three results was consumed, a worker still busy.
C19_Witness ==
    /\ pz.call = "parallelize" /\ pz.pc = "closed" /\ pz.pool = "terminated"
    /\ Len(pz.items) = 3 /\ Len(pz.out) = 1
    /\ \E w \in 1..pz.processes : pz.workers[w] # <<>>

(***************************************************************************)
(* The primitives that call user callbacks, with callbacks that raise:     *)
(* split and filter_with_state (predicate), multimap (functions),          *)
(* rolling_aggregate (func) and inner_join (key1, key2).                   *)
(***************************************************************************)
SplitRaisingInit ==
    /\ sp \in {[SplitCall(S, kind, P) EXCEPT !.raising = R] :
                  S \in Inputs, kind \in Kinds, P \in Predicates,
                  R \in SUBSET Items \ {{}}}
    /\ pk = Idle /\ bt = Idle /\ rr = Idle /\ ij = Idle
    /\ ra = Idle /\ fs = Idle /\ mm = Idle /\ pz = Idle
    /\ dr = Idle /\ th = Idle /\ tl = Idle /\ ex = Idle

MultimapRaisingInit ==
    /\ mm \in {[MultimapCall(S, functions) EXCEPT !.raising = R] :
                  S \in Inputs, functions \in SeqsUpTo(Fns, MaxFns),
                  R \in SUBSET Items \ {{}}}
    /\ pk = Idle /\ sp = Idle /\ bt = Idle /\ rr = Idle
    /\ ij = Idle /\ ra = Idle /\ fs = Idle /\ pz = Idle
    /\ dr = Idle /\ th = Idle /\ tl = Idle /\ ex = Idle

FilterStateRaisingInit ==
    /\ fs \in {[FilterStateCall(S, predicate) EXCEPT !.raising = R] :
                  S \in ValInputs, predicate \in StatePredicates,
                  R \in SUBSET Vals \ {{}}}
    /\ pk = Idle /\ sp = Idle /\ bt = Idle /\ rr = Idle
    /\ ij = Idle /\ ra = Idle /\ mm = Idle /\ pz = Idle
    /\ dr = Idle /\ th = Idle /\ tl = Idle /\ ex = Idle

RollingRaisingInit ==
    /\ ra \in {[RollingCall(S, func, supplied, v) EXCEPT !.raising = R] :
                  S \in ValInputs, func \in Funcs,
                  supplied \in BOOLEAN, v \in Vals,
                  R \in SUBSET Vals \ {{}}}
    /\ pk = Idle /\ sp = Idle /\ bt = Idle /\ rr = Idle
    /\ ij = Idle /\ fs = Idle /\ mm = Idle /\ pz = Idle
    /\ dr = Idle /\ th = Idle /\ tl = Idle /\ ex = Idle

\* key1 raises on the second item of stream1, or key2 on the first or on
\* the MaxJoinLen-th of stream2.
InnerJoinRaisingInit ==
    /\ ij \in {[InnerJoinCall(keys1, keys2) EXCEPT !.raising1 = R[1],
                                                   !.raising2 = R[2]] :
                  keys1 \in SeqsUpTo(1..MaxKey, MaxJoinLen),
                  keys2 \in SeqsUpTo(1..MaxKey, MaxJoinLen),
                  R \in {<<{2}, {}>>, <<{}, {1}>>, <<{}, {MaxJoinLen}>>}}
    /\ pk = Idle /\ sp = Idle /\ bt = Idle /\ rr = Idle
    /\ ra = Idle /\ fs = Idle /\ mm = Idle /\ pz = Idle
    /\ dr = Idle /\ th = Idle /\ tl = Idle /\ ex = Idle

CallbacksInit ==
    \/ SplitRaisingInit
    \/ MultimapRaisingInit
    \/ FilterStateRaisingInit
    \/ RollingRaisingInit
    \/ InnerJoinRaisingInit

CallbacksNext ==
    \/ SplitNext
    \/ MultimapNext
    \/ FilterStateNext
    \/ RollingNext
    \/ InnerJoinNext

SpecCallbacks == CallbacksInit /\ [][CallbacksNext]_vars

\* C20: when a user callback raises during a pull (the predicate of split
\* or filter_with_state, a function of multimap, the func of
\* rolling_aggregate, a key function of inner_join), the error comes out
\* of that pull and the rest of that traversal is aborted: every later
\* pull on the same output yields no further item.
C20_CallbackFailureAborts ==
    /\ (sp.call = "split" /\ sp.failed[1]) => Len(sp.matched) = sp.cut[1]
    /\ (sp.call = "split" /\ sp.failed[2]) => Len(sp.unmatched) = sp.cut[2]
    /\ (mm.call = "multimap" /\ mm.failed) => Len(mm.out) = mm.cut
    /\ (fs.call = "filter_with_state" /\ fs.failed) => Len(fs.out) = fs.cut
    /\ (ra.call = "rolling_aggregate" /\ ra.failed) => Len(ra.out) = ra.cut
    /\ (ij.call = "inner_join" /\ ij.failed) => Len(ij.out) = ij.cut

\* n times the value v.
Repeat(v, n) == [i \in 1..n |-> v]

\* C21: inner_join consumes its inputs in a fixed order: nothing is pulled
\* from either input before the first pull on the output; that pull reads
\* stream2 to its end, building the whole index, before the first item of
\* stream1 is pulled; stream1 is then streamed with no read-ahead: when
\* the k-th pair is emitted, the number of items pulled from stream1 is
\* the position of the left item of that pair.
C21_InnerJoinPullOrder ==
    ij.call = "inner_join" =>
        /\ ij.pc = "start" =>
              (ij.pulls = <<>> /\ ij.it1.pos = 0 /\ ij.it2.pos = 0)
        /\ ij.pc # "start" =>
              /\ ij.it2.pos = Len(ij.stream2)
              /\ DOMAIN ij.lookup = {ij.stream2[i].k : i \in 1..Len(ij.stream2)}
              /\ ij.pulls =
                    Repeat("stream2", Len(ij.stream2) + 1)
                       \o Repeat("stream1",
                                 ij.it1.pos + (IF ij.pc = "done" THEN 1 ELSE 0))
        /\ ij.pc = "yield" =>
              ij.it1.pos = ij.out[Len(ij.out)][1].at
        /\ \A k \in 1..Len(ij.out) : ij.out[k][1].at <= ij.it1.pos

\* The first pair is out, made of the second of three left items: two
\* items pulled from stream1 after the three, and the end, of stream2.
C21_Witness ==
    /\ ij.call = "inner_join" /\ ij.pc = "yield" /\ Len(ij.out) = 1
    /\ Len(ij.stream1) = 3 /\ Len(ij.stream2) = 3
    /\ ij.out[1][1].at = 2 /\ ij.it1.pos = 2 /\ Len(ij.pulls) = 6

\* C22: batches is lazy with no read-ahead: when the k-th full group is
\* emitted exactly k * batch_size items have been pulled from the input
\* and no further next() has been made on it, the buffer never holds more
\* than batch_size items, and a shorter final group is emitted only after
\* the input has signalled its end.
C22_BatchesNoReadAhead ==
    (bt.call = "batches" /\ bt.batch_size >= 2) =>
        /\ bt.pc = "start" => bt.pulls = 0
        /\ bt.pc = "loop" =>
              /\ bt.it.pos = Len(bt.out) * bt.batch_size
              /\ bt.pulls = Len(bt.out) * bt.batch_size
        /\ bt.peak <= bt.batch_size /\ Len(bt.batch) <= bt.batch_size
        /\ \A i \in 1..Len(bt.out) :
              Len(bt.out[i]) < bt.batch_size =>
                  (bt.pc \in {"tail", "done"} /\ bt.pulls = Len(bt.items) + 1)
        /\ bt.pc \in {"tail", "done"} => bt.pulls = Len(bt.items) + 1
        /\ bt.pulls <= Len(bt.items) + 1

\* The second full group of two is out, four of five items pulled and
\* the fifth not asked for.
C22_Witness ==
    /\ bt.call = "batches" /\ bt.batch_size = 2 /\ Len(bt.items) = 5
    /\ bt.pc = "loop" /\ Len(bt.out) = 2 /\ bt.pulls = 4 /\ bt.it.pos = 4

====
